---- MODULE Spec2Model ----
(***************************************************************************)
(* Model of cartoframes' geocoding workflow (Geocoding.geocode,            *)
(* _cached_geocode, _table_for_geocoding, _geocode) run against a remote   *)
(* CARTO account holding tables, and of the catalog repository             *)
(* (VariableRepository) run against its client.                            *)
(***************************************************************************)
EXTENDS Integers, Sequences, FiniteSets, TLC

\* ------------------------------------------------------------------ bounds
MaxRows == 1        \* longest local dataframe a caller passes
MaxCalls == 2       \* geocode calls made in one session
MaxResp == 2        \* longest row list the catalog client returns
MaxRepoCalls == 2    \* repository operations made in one session
MaxItems == 2       \* longest 'click' / 'hover' list of a popup
MaxZooms == 2       \* longest zooms list asked of the tileset inserts

\* --------------------------------------------------------------- constants
NULL == "NULL"                           \* SQL NULL / Python None in a cell
NONE == "None"                           \* Python None as an argument
HASH_COLUMN == "carto_geocode_hash"
DEFAULT_STATUS == {"gc_status_rel"}      \* {'gc_status_rel': 'relevance'}
CUSTOM_STATUS == {"gc_prec"}             \* a caller's {'gc_prec': 'precision'}
AddrList == <<"a", "b">>                 \* street values; "b" cannot be located
Addr == {AddrList[i] : i \in DOMAIN AddrList}
TmpNames == <<"tmp1", "tmp2", "tmp3", "tmp4">>
TableNames == {"S", "T"} \cup {TmpNames[i] : i \in 1..Len(TmpNames)}

ERR_NO_TABLE_NAME == "There is no \"table_name\" to cache the data"
ERR_INVALID_CACHE == "Cache table exists but is not a valid geocode table"
ERR_CACHED_TABLE == "cached geocoding cannot be used with tables"
ERR_TABLE_EXISTS == "Table already exists"
ERR_WRONG_DATAFRAME == "Wrong dataframe"
ERR_LOCKED == "The table is already being geocoded"
ERR_GEOCODER == "geocoding query failed"
ERR_QUOTA == "Geocoder: remaining quota: 5. Estimated cost: 7"
ERR_QUOTA_PARTIAL == "Remaining quota: 5. Estimated cost: unknown"
\* messages the geocoding query can raise
QueryErrors == {ERR_GEOCODER, ERR_QUOTA, ERR_QUOTA_PARTIAL}

\* ------------------------------------------------------------ data shapes
Row(a, g, h) == [addr |-> a, geom |-> g, hash |-> h]
NoTable == [exists |-> FALSE, rows |-> <<>>, cols |-> {}]
Table(rows, cols) == [exists |-> TRUE, rows |-> rows, cols |-> cols]
NoDF == [rows |-> <<>>, cols |-> {}]
NoData == [exists |-> FALSE, rows |-> <<>>, cols |-> {}]

SeqsUpTo(S, n) == UNION {[1..k -> S] : k \in 0..n}
\* local dataframes never geocoded before (the order of the rows of a dataframe
\* plays no part in the workflow: one order stands for all)
FreshRows ==
    {[i \in DOMAIN s |-> Row(AddrList[s[i]], NULL, NULL)] :
        s \in {t \in SeqsUpTo(DOMAIN AddrList, MaxRows) :
                  \A i \in DOMAIN t : \A j \in DOMAIN t : i < j => t[i] <= t[j]}}

DataFrameSource(df) == [kind |-> "dataframe", name |-> NONE, df |-> df]
TableSource(n) == [kind |-> "table", name |-> n, df |-> NoDF]
QuerySource(n) == [kind |-> "query", name |-> n, df |-> NoDF]

NoArgs ==
    [source |-> TableSource(NONE), status |-> DEFAULT_STATUS, table_name |-> NONE,
     if_exists |-> "fail", dry_run |-> FALSE, cached |-> FALSE]

\* remaining_quota and estimated_cost are {} while the key is not set
NoOutput ==
    [total_rows |-> 0, required_quota |-> 0, error |-> NONE, aborted |-> NONE,
     post |-> FALSE, final_records_with_geometry |-> 0,
     remaining_quota |-> {}, estimated_cost |-> {}]

\* the text of a message, cut into words, whitespace runs and numbers
Tokens(msg) ==
    CASE msg = ERR_QUOTA ->
           <<"Geocoder:", " ", "remaining quota:", " ", "5", ".", " ",
             "Estimated cost:", " ", "7">>
      [] msg = ERR_QUOTA_PARTIAL ->
           <<"Remaining quota:", " ", "5", ".", " ", "Estimated cost:", " ", "unknown">>
      [] OTHER -> <<msg>>
\* re.IGNORECASE
Lower(tok) ==
    CASE tok = "Remaining quota:" -> "remaining quota:"
      [] tok = "Estimated cost:" -> "estimated cost:"
      [] OTHER -> tok
DigitStrings == {"5", "7"}
\* int(match.group(n))
IntOf(str) == CASE str = "5" -> 5 [] str = "7" -> 7
\* re.search(r'Remaining quota:\s+(\d+)\.\s+Estimated cost:\s+(\d+)', msg,
\* re.MULTILINE | re.IGNORECASE)
MatchAt(t, i) ==
    /\ i + 7 <= Len(t)
    /\ Lower(t[i]) = "remaining quota:"
    /\ t[i + 1] = " "
    /\ t[i + 2] \in DigitStrings
    /\ t[i + 3] = "."
    /\ t[i + 4] = " "
    /\ Lower(t[i + 5]) = "estimated cost:"
    /\ t[i + 6] = " "
    /\ t[i + 7] \in DigitStrings
ReSearch(msg) ==
    LET t == Tokens(msg)
        at == {i \in 1..Len(t) : MatchAt(t, i)}
    IN IF at = {} THEN [found |-> FALSE, group1 |-> NONE, group2 |-> NONE]
       ELSE LET i == CHOOSE j \in at : \A k \in at : j <= k
            IN [found |-> TRUE, group1 |-> t[i + 2], group2 |-> t[i + 7]]

NoResult == [kind |-> "none", data |-> NoData, metadata |-> NoOutput, error |-> NONE]

Event(op, table) == [op |-> op, table |-> table]

\* ---------------------------------------------------- remote data services
\* md5 of the address fields of a row
HashOf(a) == "md5:" \o a

\* point the street geocoder returns for an address (NULL: not located)
GeomOf(a) == IF a = "b" THEN NULL ELSE "pt:" \o a

\* rows the geocoding UPDATE selects: never hashed, or hashed from other content
NeedsGeocoding(r) == r.hash = NULL \/ r.hash # HashOf(r.addr)

\* gc_state of a row in the summary queries
GcState(r, has_hash) ==
    IF ~has_hash THEN (IF r.geom = NULL THEN "new_nongeocoded" ELSE "new_geocoded")
    ELSE IF r.hash = NULL THEN (IF r.geom = NULL THEN "new_nongeocoded" ELSE "new_geocoded")
    ELSE IF r.hash # HashOf(r.addr)
         THEN (IF r.geom = NULL THEN "changed_nongeocoded" ELSE "changed_geocoded")
    ELSE (IF r.geom = NULL THEN "previously_nongeocoded" ELSE "previously_geocoded")

CountState(t, states) ==
    Cardinality({i \in DOMAIN t.rows : GcState(t.rows[i], HASH_COLUMN \in t.cols) \in states})

\* set_pre_summary_info: quota is needed for the new and the changed rows
RequiredQuota(t) ==
    CountState(t, {"new_geocoded", "new_nongeocoded", "changed_geocoded", "changed_nongeocoded"})

RecordsWithGeometry(t) == Cardinality({i \in DOMAIN t.rows : t.rows[i].geom # NULL})

\* the bulk geocoding UPDATE: geometry and hash of every selected row
GeocodedRows(rows) ==
    [i \in DOMAIN rows |->
        IF NeedsGeocoding(rows[i])
        THEN Row(rows[i].addr, GeomOf(rows[i].addr), HashOf(rows[i].addr))
        ELSE rows[i]]

\* ------------------------------------------------------------ io.carto
HasTable(tbls, n) == n \in DOMAIN tbls /\ tbls[n].exists

\* to_carto / copy_table / create_table_from_query refuse an existing table
\* unless told to replace it
CanCreate(tbls, n, if_exists) == ~HasTable(tbls, n) \/ if_exists = "replace"

SourceContent(tbls, src) ==
    IF src.kind = "dataframe" THEN Table(src.df.rows, src.df.cols)
    ELSE Table(tbls[src.name].rows, tbls[src.name].cols)

\* SourceManager.get_column_names
ColumnNames(tbls, src) == SourceContent(tbls, src).cols


\* ------------------------------------------------------------------ state
VARIABLES
    tables,            \* the CARTO account: table name -> table
    pc,                \* position of the running geocode call
    callNo,            \* geocode calls started so far
    outer,             \* arguments the caller passed to Geocoding.geocode
    args,              \* arguments of the geocode frame now running
    columns,           \* self.columns
    tmp_table_name,    \* _cached_geocode's temporary table
    input_table_name,  \* table _geocode works on
    is_temporary,
    output,            \* _geocode's metadata dictionary
    aborted,           \* _geocode's local flag
    locked,            \* this call holds the table geocoding lock
    gq_status,         \* status mapping handed to geocoding_utils.geocode_query
    log,               \* remote operations of the running call, in order
    result,            \* what the last call returned or raised
    prev,              \* arguments of the previous call if it was a successful cached geocode
    uploaded,          \* rows _cached_geocode uploaded to the temporary table
    cacheHashes,       \* hashes stored in the cache table when the merge UPDATE ran
    geocoded,          \* row numbers the geocoding query spent quota on
    before,            \* the account as it was when the call started
    priorTable,        \* the table as the prior summary found it
    err,               \* message of the exception the geocoding query raised
    response,          \* rows the catalog client returns
    clientCalls,       \* calls received by the catalog client
    repoResult,        \* what the last repository operation returned or raised
    repoCalls,         \* repository operations run so far
    layerArgs,         \* arguments of the last color_continuous_layer call
    layer,             \* arguments color_continuous_layer handed to Layer
    popupData,         \* the data a Popup was constructed from
    popupState,        \* "none", "built" or "failed" (the constructor raised)
    click,             \* Popup._click
    hover,             \* Popup._hover
    popupResult,       \* what the last Popup operation returned or raised
    zooms,             \* the zooms argument of the tileset inserts
    ran,               \* insert functions that have run for this tileset
    queries            \* queries GBQManager.execute_query received

geoVars ==
    <<tables, pc, callNo, outer, args, columns, tmp_table_name, input_table_name,
      is_temporary, output, aborted, locked, gq_status, log, result, prev, uploaded,
      cacheHashes, geocoded, before, priorTable, err>>
repoVars == <<response, clientCalls, repoResult, repoCalls>>
layerVars == <<layerArgs, layer>>
popupVars == <<popupData, popupState, click, hover, popupResult>>
gbqVars == <<zooms, ran, queries>>
otherVars == <<layerVars, popupVars, gbqVars>>
vars == <<geoVars, err, repoVars, otherVars>>

InitTables(t) ==
    [n \in TableNames |->
        IF n = "S" THEN Table(<<Row("a", NULL, NULL), Row("b", NULL, NULL)>>, {})
        ELSE IF n = "T" THEN t
        ELSE NoTable]

NoRepoResult ==
    [op |-> NONE, arg |-> NONE, kind |-> "none",
     value |-> [type |-> "None", items |-> <<>>], error |-> NONE]

InitGeo ==
    /\ tables = InitTables(NoTable)
    /\ pc = "idle"
    /\ callNo = 0
    /\ outer = NoArgs
    /\ args = NoArgs
    /\ columns = {}
    /\ tmp_table_name = NONE
    /\ input_table_name = NONE
    /\ is_temporary = FALSE
    /\ output = NoOutput
    /\ aborted = FALSE
    /\ err = NONE
    /\ locked = FALSE
    /\ gq_status = {}
    /\ log = <<>>
    /\ result = NoResult
    /\ prev = NoArgs
    /\ uploaded = <<>>
    /\ cacheHashes = {}
    /\ geocoded = {}
    /\ before = tables
    /\ priorTable = NoTable

InitRepoIdle ==
    /\ response = <<>>
    /\ clientCalls = <<>>
    /\ repoResult = NoRepoResult
    /\ repoCalls = 0

\* no layer has been built yet
NoLayerArgs == [value |-> NONE]
NoLayer == [source |-> NONE]
InitLayerIdle ==
    /\ layerArgs = NoLayerArgs
    /\ layer = NoLayer

\* no Popup has been constructed yet
NoPopupData == [tag |-> "unset"]
NoPopupResult == [op |-> NONE, kind |-> NONE, error |-> NONE, value |-> <<>>]
InitPopupIdle ==
    /\ popupData = NoPopupData
    /\ popupState = "none"
    /\ click = <<>>
    /\ hover = <<>>
    /\ popupResult = NoPopupResult

\* no tileset is being generated
NoZooms == [given |-> FALSE, list |-> <<>>]
InitGbqIdle ==
    /\ zooms = NoZooms
    /\ ran = {}
    /\ queries = <<>>

InitOtherIdle == InitLayerIdle /\ InitPopupIdle /\ InitGbqIdle

Init == InitGeo /\ InitRepoIdle /\ InitOtherIdle

\* ------------------------------------------------------------- the caller
\* a dataframe is new, or carries the hash column with no hash set yet (as
\* read back after a geocoding query that failed), or is the data the last call
\* returned; a table or a query names a table of the account
Sources ==
    {DataFrameSource([rows |-> r, cols |-> {}]) : r \in FreshRows}
    \cup {DataFrameSource([rows |-> r, cols |-> {HASH_COLUMN}]) :
            r \in {q \in FreshRows : Len(q) = 1}}
    \cup {DataFrameSource([rows |-> result.data.rows, cols |-> result.data.cols]) :
            x \in {y \in {result.kind} : y = "returned" /\ result.data.exists}}
    \cup {TableSource(n) : n \in {m \in {"S", "T"} : HasTable(tables, m)}}
    \cup {QuerySource(n) : n \in {m \in {"S"} : HasTable(tables, m)}}

\* if_exists is passed only along with a table_name ("only applicable if
\* table_name isn't None"). Arguments the call never reads keep their default:
\* if_exists is not handed to _cached_geocode, and status is read only where
\* the geocoding query is built, which a dry run does not reach.
ArgChoices ==
    {a \in {[source |-> s, status |-> st, table_name |-> tn, if_exists |-> ie,
             dry_run |-> dr, cached |-> c] :
                s \in Sources, st \in {DEFAULT_STATUS, CUSTOM_STATUS}, tn \in {NONE, "T"},
                ie \in {"fail", "replace"}, dr \in BOOLEAN, c \in BOOLEAN} :
        /\ a.table_name = NONE => a.if_exists = "fail"
        /\ a.cached => a.if_exists = "fail"
        /\ a.dry_run => a.status = DEFAULT_STATUS}

\* the finished call was a cached geocode of a dataframe that returned without error
SuccessfulCached ==
    /\ result.kind = "returned"
    /\ result.metadata.error = NONE
    /\ outer.cached
    /\ ~outer.dry_run
    /\ outer.source.kind = "dataframe"

\* faulty variants of the decisions below: each is the decision with a plausible
\* slip, and the properties must tell it from the decision as coded
NoTableNameUnchecked(a) == FALSE
UploadedRowsChangedOnly(a) ==
    SelectSeq(a.source.df.rows,
              LAMBDA r : \A j \in DOMAIN tables[a.table_name].rows :
                            tables[a.table_name].rows[j].hash # HashOf(r.addr))
InPlaceNever(a) == FALSE
IfExistsReplace(a) == "replace"
SpendsQuotaInDryRun(out, dry_run) == out.required_quota > 0
RunsPosteriorAlways(ab) == TRUE

\* geocode: `if cached: if not table_name: raise`
NoTableNameToCache(a) == a.cached /\ a.table_name = NONE

\* _cached_geocode: the keyword arguments of its self.geocode(source, ...,
\* table_name=table_name, dry_run=dry_run, if_exists='replace')
ReplaceCacheArgs(a) ==
    [a EXCEPT !.if_exists = "replace", !.status = DEFAULT_STATUS, !.cached = FALSE]

\* the cache table taken as valid whatever its columns
InvalidCacheTableNever(has_cache, cache_columns) == FALSE

\* _cached_geocode: `if has_cache:` and `if HASH_COLUMN not in cache_columns`
InvalidCacheTable(has_cache, cache_columns) ==
    has_cache /\ HASH_COLUMN \notin cache_columns

\* the last self.geocode of _cached_geocode given the source again
RegeocodeArgsFromSource(a) == [a EXCEPT !.cached = FALSE]

\* _cached_geocode: the keyword arguments of its self.geocode(table_name, ...,
\* dry_run=dry_run)
RegeocodeArgs(a) ==
    [source |-> TableSource(a.table_name), status |-> DEFAULT_STATUS,
     table_name |-> NONE, if_exists |-> "fail", dry_run |-> a.dry_run, cached |-> FALSE]

\* _cached_geocode: what to_carto(source, tmp_table_name, ...) uploads
UploadedRows(a) == a.source.df.rows

\* _table_for_geocoding: a table source without table_name is geocoded in place
InPlace(a) == a.source.kind = "table" /\ a.table_name = NONE

\* _table_for_geocoding: a query or a dataframe without table_name goes to a
\* temporary table
Temporary(a) == a.source.kind # "table" /\ a.table_name = NONE

\* _table_for_geocoding: the if_exists handed to copy_table,
\* create_table_from_query and to_carto
IfExistsPassed(a) == a.if_exists

\* geocode: the status handed to _geocode
StatusPassed(a) == a.status

\* _geocode: `if output['required_quota'] > 0 and not dry_run`
SpendsQuota(out, dry_run) == out.required_quota > 0 /\ ~dry_run

\* _geocode: `if not aborted` before the posterior summary
RunsPosterior(ab) == ~ab

Raise(e) ==
    /\ pc' = "done"
    /\ result' = [kind |-> "raised", data |-> NoData, metadata |-> NoOutput, error |-> e]

\* the call is over: its frame is dropped, the account stays as it is
Return ==
    /\ pc = "done"
    /\ pc' = "idle"
    /\ prev' = IF SuccessfulCached THEN outer ELSE NoArgs
    /\ outer' = NoArgs
    /\ args' = NoArgs
    /\ columns' = {}
    /\ tmp_table_name' = NONE
    /\ input_table_name' = NONE
    /\ is_temporary' = FALSE
    /\ output' = NoOutput
    /\ aborted' = FALSE
    /\ gq_status' = {}
    /\ log' = <<>>
    /\ uploaded' = <<>>
    /\ cacheHashes' = {}
    /\ geocoded' = {}
    /\ before' = tables
    /\ priorTable' = NoTable
    /\ err' = NONE
    /\ result' = IF result.kind = "returned" /\ result.data.exists
                 THEN [NoResult EXCEPT !.kind = "returned", !.data = result.data]
                 ELSE NoResult
    /\ UNCHANGED <<tables, callNo, locked, repoVars, otherVars>>

\* the caller invokes Geocoding.geocode(source, street, status=, table_name=,
\* if_exists=, dry_run=, cached=)
Call ==
    /\ pc = "idle"
    /\ callNo < MaxCalls
    /\ \E a \in ArgChoices :
         /\ outer' = a
         /\ args' = a
    /\ callNo' = callNo + 1
    /\ pc' = "geocode"
    /\ result' = NoResult
    /\ before' = tables
    /\ UNCHANGED <<priorTable, tables, columns, tmp_table_name, input_table_name, is_temporary,
                   output, aborted, locked, gq_status, log, prev, uploaded,
                   cacheHashes, geocoded, err, repoVars, otherVars>>

\* Geocoding.geocode up to the dispatch on `cached`
GeocodeEntry ==
    /\ pc = "geocode"
    /\ columns' = ColumnNames(tables, args.source)
    /\ IF args.cached
       THEN IF NoTableNameToCache(args)
            THEN Raise(ERR_NO_TABLE_NAME)
            ELSE pc' = "cached_geocode" /\ UNCHANGED result
       ELSE pc' = "table_for_geocoding" /\ UNCHANGED result
    /\ UNCHANGED <<tables, callNo, outer, args, tmp_table_name, input_table_name,
                   is_temporary, output, aborted, locked, gq_status, log, prev,
                   uploaded, cacheHashes, geocoded, before, priorTable, err, repoVars, otherVars>>

\* _cached_geocode: validation of the cache table and choice of the path
CachedGeocode ==
    /\ pc = "cached_geocode"
    /\ LET has_cache == HasTable(tables, args.table_name)
           cache_columns == IF has_cache THEN tables[args.table_name].cols ELSE {}
       IN
       IF InvalidCacheTable(has_cache, cache_columns)
       THEN Raise(ERR_INVALID_CACHE) /\ UNCHANGED <<args, tmp_table_name>>
       ELSE IF HASH_COLUMN \in columns \/ ~has_cache
       THEN /\ args' = ReplaceCacheArgs(args)
            /\ pc' = "geocode"
            /\ UNCHANGED <<result, tmp_table_name>>
       ELSE /\ tmp_table_name' = TmpNames[callNo]
            /\ pc' = "cached_upload"
            /\ UNCHANGED <<result, args>>
    /\ UNCHANGED <<tables, callNo, outer, columns, input_table_name, is_temporary,
                   output, aborted, locked, gq_status, log, prev, uploaded,
                   cacheHashes, geocoded, before, priorTable, err, repoVars, otherVars>>

\* _cached_geocode: upload of the dataframe to a new temporary table
CachedUpload ==
    /\ pc = "cached_upload"
    /\ IF args.source.kind = "table"
       THEN Raise(ERR_CACHED_TABLE) /\ UNCHANGED <<tables, log, uploaded>>
       ELSE IF args.source.kind # "dataframe"
       THEN Raise(ERR_WRONG_DATAFRAME) /\ UNCHANGED <<tables, log, uploaded>>
       ELSE /\ tables' = [tables EXCEPT ![tmp_table_name] =
                              Table(UploadedRows(args), args.source.df.cols)]
            /\ uploaded' = UploadedRows(args)
            /\ log' = Append(log, Event("to_carto", tmp_table_name))
            /\ pc' = "cached_alter"
            /\ UNCHANGED result
    /\ UNCHANGED <<callNo, outer, args, columns, tmp_table_name, input_table_name,
                   is_temporary, output, aborted, locked, gq_status, prev,
                   cacheHashes, geocoded, before, priorTable, err, repoVars, otherVars>>

\* _cached_geocode: ALTER TABLE tmp ADD COLUMN IF NOT EXISTS carto_geocode_hash
CachedAlterTmp ==
    /\ pc = "cached_alter"
    /\ tables' = [tables EXCEPT ![tmp_table_name].cols = @ \cup {HASH_COLUMN}]
    /\ log' = Append(log, Event("alter_tmp", tmp_table_name))
    /\ pc' = "cached_merge"
    /\ UNCHANGED <<callNo, outer, args, columns, tmp_table_name, input_table_name,
                   is_temporary, output, aborted, locked, gq_status, result, prev,
                   uploaded, cacheHashes, geocoded, before, priorTable, err, repoVars, otherVars>>

\* rows of the cache table whose stored hash is the hash of row r's content
Matches(cache, r) == {j \in DOMAIN cache.rows : cache.rows[j].hash = HashOf(r.addr)}

\* _cached_geocode: UPDATE tmp SET hash = T.hash, the_geom = T.the_geom FROM T
\* WHERE hash_expr = T.hash (with several matching rows the database picks one)
CachedMergeUpdate ==
    /\ pc = "cached_merge"
    /\ LET cache == tables[args.table_name]
           tmp == tables[tmp_table_name]
       IN \E m \in [DOMAIN tmp.rows -> 0..Len(cache.rows)] :
            /\ \A i \in DOMAIN tmp.rows :
                 IF Matches(cache, tmp.rows[i]) = {} THEN m[i] = 0
                 ELSE m[i] \in Matches(cache, tmp.rows[i])
            /\ tables' = [tables EXCEPT ![tmp_table_name].rows =
                   [i \in DOMAIN tmp.rows |->
                       IF m[i] = 0 THEN tmp.rows[i]
                       ELSE Row(tmp.rows[i].addr, cache.rows[m[i]].geom, cache.rows[m[i]].hash)]]
            /\ cacheHashes' = {cache.rows[j].hash : j \in DOMAIN cache.rows} \ {NULL}
    /\ log' = Append(log, Event("merge_update", tmp_table_name))
    /\ pc' = "cached_delete"
    /\ UNCHANGED <<callNo, outer, args, columns, tmp_table_name, input_table_name,
                   is_temporary, output, aborted, locked, gq_status, result, prev,
                   uploaded, geocoded, before, priorTable, err, repoVars, otherVars>>

\* _cached_geocode: delete_table(table_name)
CachedDeleteCache ==
    /\ pc = "cached_delete"
    /\ tables' = [tables EXCEPT ![args.table_name] = NoTable]
    /\ log' = Append(log, Event("delete_table", args.table_name))
    /\ pc' = "cached_rename"
    /\ UNCHANGED <<callNo, outer, args, columns, tmp_table_name, input_table_name,
                   is_temporary, output, aborted, locked, gq_status, result, prev,
                   uploaded, cacheHashes, geocoded, before, priorTable, err, repoVars, otherVars>>

\* _cached_geocode: update_table(tmp, new_table_name=table_name)
CachedRename ==
    /\ pc = "cached_rename"
    /\ tables' = [tables EXCEPT ![args.table_name] = tables[tmp_table_name],
                                ![tmp_table_name] = NoTable]
    /\ log' = Append(log, Event("rename_table", args.table_name))
    /\ pc' = "cached_regeocode"
    /\ UNCHANGED <<callNo, outer, args, columns, tmp_table_name, input_table_name,
                   is_temporary, output, aborted, locked, gq_status, result, prev,
                   uploaded, cacheHashes, geocoded, before, priorTable, err, repoVars, otherVars>>

\* _cached_geocode: self.geocode(table_name, street=..., dry_run=dry_run)
CachedRegeocode ==
    /\ pc = "cached_regeocode"
    /\ args' = RegeocodeArgs(args)
    /\ pc' = "geocode"
    /\ UNCHANGED <<tables, callNo, outer, columns, tmp_table_name, input_table_name,
                   is_temporary, output, aborted, locked, gq_status, log, result, prev,
                   uploaded, cacheHashes, geocoded, before, priorTable, err, repoVars, otherVars>>

\* _table_for_geocoding: the table _geocode will work on
TableForGeocoding ==
    /\ pc = "table_for_geocoding"
    /\ LET kind == args.source.kind
           in_place == InPlace(args)
           temporary == Temporary(args)
           target == IF temporary THEN TmpNames[callNo]
                     ELSE IF args.table_name # NONE THEN args.table_name
                     ELSE args.source.name
           op == IF kind = "table" THEN "copy_table"
                 ELSE IF kind = "query" THEN "create_table_from_query"
                 ELSE "to_carto"
       IN IF in_place
          THEN /\ input_table_name' = target
               /\ is_temporary' = FALSE
               /\ pc' = "prior_summary"
               /\ UNCHANGED <<tables, log, result>>
          ELSE IF ~CanCreate(tables, target, IfExistsPassed(args))
          THEN /\ Raise(ERR_TABLE_EXISTS)
               /\ UNCHANGED <<tables, log, input_table_name, is_temporary>>
          ELSE /\ tables' = [tables EXCEPT ![target] = SourceContent(tables, args.source)]
               /\ log' = Append(log, Event(op, target))
               /\ input_table_name' = target
               /\ is_temporary' = temporary
               /\ pc' = "prior_summary"
               /\ UNCHANGED result
    /\ UNCHANGED <<callNo, outer, args, columns, tmp_table_name, output, aborted,
                   locked, gq_status, prev, uploaded, cacheHashes, geocoded, before, priorTable,
                   err, repoVars, otherVars>>

\* _geocode: _execute_prior_summary and set_pre_summary_info
PriorSummary ==
    /\ pc = "prior_summary"
    /\ output' = [NoOutput EXCEPT !.total_rows = Len(tables[input_table_name].rows),
                                  !.required_quota = RequiredQuota(tables[input_table_name])]
    /\ aborted' = FALSE
    /\ err' = NONE
    /\ priorTable' = tables[input_table_name]
    /\ log' = log \o <<Event("exists_column_query", input_table_name),
                       Event("prior_summary", input_table_name)>>
    /\ pc' = "check_quota"
    /\ UNCHANGED <<tables, callNo, outer, args, columns, tmp_table_name,
                   input_table_name, is_temporary, locked, gq_status, result, prev,
                   uploaded, cacheHashes, geocoded, before, repoVars, otherVars>>

\* the columns are added whether the lock was got or not
AfterLockAlwaysAlter(got) == "alter"

\* _geocode: `if not locked: ... else:` inside the with block
AfterLock(got) == IF got THEN "alter" ELSE "unlock"

\* _geocode: `if required_quota > 0 and not dry_run`, and entering the
\* TableGeocodingLock (another session may hold the lock of the table)
AcquireLock ==
    /\ pc = "check_quota"
    /\ IF SpendsQuota(output, args.dry_run)
       THEN \E got \in BOOLEAN :
              /\ log' = Append(log, Event("lock", input_table_name))
              /\ locked' = got
              /\ pc' = AfterLock(got)
              /\ IF got
                 THEN UNCHANGED <<output, aborted>>
                 ELSE /\ output' = [output EXCEPT !.error = ERR_LOCKED, !.aborted = TRUE]
                      /\ aborted' = TRUE
       ELSE pc' = "finish" /\ UNCHANGED <<log, locked, output, aborted>>
    /\ UNCHANGED <<tables, callNo, outer, args, columns, tmp_table_name,
                   input_table_name, is_temporary, gq_status, result, prev, uploaded,
                   cacheHashes, geocoded, before, priorTable, err, repoVars, otherVars>>

\* _geocode: geocode_query(..., status) and the ALTER TABLE adding its columns
\* and the hash column
AlterAddColumns ==
    /\ pc = "alter"
    /\ gq_status' = StatusPassed(args)
    /\ tables' = [tables EXCEPT ![input_table_name].cols =
                      @ \cup StatusPassed(args) \cup {HASH_COLUMN}]
    /\ log' = Append(log, Event("alter_table", input_table_name))
    /\ pc' = "geocode_query"
    /\ UNCHANGED <<callNo, outer, args, columns, tmp_table_name, input_table_name,
                   is_temporary, output, aborted, locked, result, prev, uploaded,
                   cacheHashes, geocoded, before, priorTable, err, repoVars, otherVars>>

\* the geocoding query raised: no quota figures are read from the message
OutputOnErrorNoQuota(out, msg) == [out EXCEPT !.error = msg]

\* _geocode: the `except Exception as err` block
OutputOnError(out, msg) ==
    LET match == ReSearch(msg) IN
    [out EXCEPT !.error = msg,
                !.remaining_quota = IF match.found THEN {IntOf(match.group1)} ELSE @,
                !.estimated_cost = IF match.found THEN {IntOf(match.group2)} ELSE @]

\* _geocode: the long running geocoding query, which may raise
GeocodeQuery ==
    /\ pc = "geocode_query"
    /\ log' = Append(log, Event("geocode_query", input_table_name))
    /\ \/ /\ tables' = [tables EXCEPT ![input_table_name].rows = GeocodedRows(@)]
          /\ geocoded' = {i \in DOMAIN tables[input_table_name].rows :
                             NeedsGeocoding(tables[input_table_name].rows[i])}
          /\ UNCHANGED <<output, aborted, err>>
       \/ \E msg \in QueryErrors :
            /\ err' = msg
            /\ output' = OutputOnError(output, msg)
            /\ aborted' = TRUE
            /\ UNCHANGED <<tables, geocoded>>
    /\ pc' = "unlock"
    /\ UNCHANGED <<callNo, outer, args, columns, tmp_table_name, input_table_name,
                   is_temporary, locked, gq_status, result, prev, uploaded,
                   cacheHashes, before, priorTable, repoVars, otherVars>>

\* _geocode: leaving the `with TableGeocodingLock` block
ReleaseLock ==
    /\ pc = "unlock"
    /\ locked' = FALSE
    /\ log' = IF locked THEN Append(log, Event("unlock", input_table_name)) ELSE log
    /\ pc' = IF RunsPosterior(aborted) THEN "posterior" ELSE "finish"
    /\ UNCHANGED <<tables, callNo, outer, args, columns, tmp_table_name,
                   input_table_name, is_temporary, output, aborted, gq_status, result,
                   prev, uploaded, cacheHashes, geocoded, before, priorTable, err, repoVars, otherVars>>

\* _geocode: posterior_summary_query and set_post_summary_info
PosteriorSummary ==
    /\ pc = "posterior"
    /\ log' = Append(log, Event("posterior_summary", input_table_name))
    /\ output' = [output EXCEPT !.post = TRUE,
                     !.final_records_with_geometry =
                         RecordsWithGeometry(tables[input_table_name])]
    /\ pc' = "finish"
    /\ UNCHANGED <<tables, callNo, outer, args, columns, tmp_table_name,
                   input_table_name, is_temporary, aborted, locked, gq_status, result,
                   prev, uploaded, cacheHashes, geocoded, before, priorTable, err, repoVars, otherVars>>

\* Geocoding.geocode after _geocode: the result, read_carto and the removal
\* of a temporary table
GeocodeFinish ==
    /\ pc = "finish"
    /\ IF args.dry_run
       THEN /\ result' = [kind |-> "returned", data |-> NoData, metadata |-> output,
                          error |-> NONE]
            /\ UNCHANGED <<tables, log>>
       ELSE /\ result' = [kind |-> "returned", data |-> tables[input_table_name],
                          metadata |-> output, error |-> NONE]
            /\ IF is_temporary
               THEN /\ tables' = [tables EXCEPT ![input_table_name] = NoTable]
                    /\ log' = log \o <<Event("read_carto", input_table_name),
                                       Event("delete_table", input_table_name)>>
               ELSE /\ log' = Append(log, Event("read_carto", input_table_name))
                    /\ UNCHANGED tables
    /\ pc' = "done"
    /\ UNCHANGED <<callNo, outer, args, columns, tmp_table_name, input_table_name,
                   is_temporary, output, aborted, locked, gq_status, prev, uploaded,
                   cacheHashes, geocoded, before, priorTable, err, repoVars, otherVars>>

Next ==
    \/ Call
    \/ Return
    \/ GeocodeEntry
    \/ CachedGeocode
    \/ CachedUpload
    \/ CachedAlterTmp
    \/ CachedMergeUpdate
    \/ CachedDeleteCache
    \/ CachedRename
    \/ CachedRegeocode
    \/ TableForGeocoding
    \/ PriorSummary
    \/ AcquireLock
    \/ AlterAddColumns
    \/ GeocodeQuery
    \/ ReleaseLock
    \/ PosteriorSummary
    \/ GeocodeFinish

Spec == Init /\ [][Next]_vars

\* ------------------------------------------------------------- properties
HasOp(op) == \E i \in DOMAIN log : log[i].op = op
InCall == pc # "idle"
CreateOps == {"to_carto", "copy_table", "create_table_from_query"}
\* the call created, replaced, renamed onto or deleted table n
Replaced(n) ==
    \E i \in DOMAIN log :
        log[i].table = n /\ log[i].op \in CreateOps \cup {"delete_table", "rename_table"}
\* hashes a table stores
StoredHashes(t) == {t.rows[j].hash : j \in DOMAIN t.rows} \ {NULL}
\* the running call repeats the previous one, a successful cached geocode of a dataframe
Repeat == InCall /\ prev # NoArgs /\ outer = prev
\* the running call is a cached geocode of a dataframe against a valid cache table
CachedOnValidCache ==
    /\ InCall
    /\ outer.cached
    /\ outer.source.kind = "dataframe"
    /\ outer.table_name # NONE
    /\ HasTable(before, outer.table_name)
    /\ HASH_COLUMN \in before[outer.table_name].cols

\* C1: a cached geocode that repeats a successful cached geocode of the same
\* dataframe with the same arguments takes no lock and runs no geocoding query,
\* and its prior summary finds required_quota = 0.
C1_RepeatSpendsNoCredits ==
    Repeat =>
        /\ ~HasOp("lock")
        /\ ~HasOp("geocode_query")
        /\ (HasOp("prior_summary") => output.required_quota = 0)

\* C2: in a cached geocode against a valid cache table the geocoding query
\* spends quota only on rows whose content hash is not stored in the cache table
\* (no unmodified, previously geocoded row is geocoded again), and the merge
\* gives a hash only to rows whose content hash is stored there.
C2_OnlyChangedRowsGeocoded ==
    CachedOnValidCache =>
        /\ \A i \in geocoded :
             HashOf(tables[input_table_name].rows[i].addr)
                 \notin StoredHashes(before[outer.table_name])
        /\ (pc = "cached_delete" =>
              \A i \in DOMAIN tables[tmp_table_name].rows :
                 LET r == tables[tmp_table_name].rows[i] IN
                 r.hash # NULL <=> HashOf(r.addr) \in StoredHashes(before[outer.table_name]))

C4_DryRunGeocodesNothing ==
    (InCall /\ outer.dry_run) =>
        /\ ~locked
        /\ geocoded = {}
        /\ \A i \in DOMAIN log :
             log[i].op \notin {"lock", "alter_table", "geocode_query",
                               "posterior_summary", "unlock"}
        /\ ((pc = "done" /\ result.kind = "returned") =>
              /\ result.data = NoData
              /\ result.metadata =
                    [NoOutput EXCEPT !.total_rows = Len(priorTable.rows),
                                     !.required_quota = RequiredQuota(priorTable)])

C4_Witness ==
    /\ pc = "done"
    /\ outer.dry_run
    /\ outer.cached
    /\ result.kind = "returned"
    /\ result.metadata.required_quota > 0

\* C5 as stated: with if_exists = 'fail' a table named table_name that existed
\* before the call is never replaced or deleted, cached or not.
C5_FailNeverReplaces ==
    (InCall /\ outer.if_exists = "fail" /\ HasTable(before, outer.table_name)) =>
        /\ ~Replaced(outer.table_name)
        /\ tables[outer.table_name] = before[outer.table_name]

\* C5 amended: with if_exists = 'fail' and cached not set, a table named
\* table_name that existed before the call is never replaced or deleted.
C5_FailNeverReplacesUncached ==
    (InCall /\ outer.if_exists = "fail" /\ ~outer.cached
        /\ HasTable(before, outer.table_name)) =>
        /\ ~Replaced(outer.table_name)
        /\ tables[outer.table_name] = before[outer.table_name]

C5_Witness ==
    /\ pc = "done"
    /\ outer.if_exists = "fail"
    /\ ~outer.cached
    /\ HasTable(before, outer.table_name)
    /\ result.kind = "raised"
    /\ result.error = ERR_TABLE_EXISTS

\* C6: cached without table_name raises ValueError('There is no "table_name" to
\* cache the data') before any remote operation: no table is created, altered,
\* renamed or deleted and no query runs.
C6_CachedNeedsTableName ==
    (InCall /\ outer.cached /\ outer.table_name = NONE) =>
        /\ pc \in {"geocode", "done"}
        /\ log = <<>>
        /\ tables = before
        /\ (pc = "done" => result.kind = "raised" /\ result.error = ERR_NO_TABLE_NAME)

C6_Witness ==
    /\ pc = "done"
    /\ outer.cached
    /\ outer.table_name = NONE
    /\ result.error = ERR_NO_TABLE_NAME

\* C7: a table source without table_name (cached not set) is geocoded in place:
\* every remote operation is on the source table, none creates, renames or
\* deletes a table, no other table changes, and the data returned is the source
\* table as read back.
C7_TableGeocodedInPlace ==
    (InCall /\ ~outer.cached /\ outer.source.kind = "table" /\ outer.table_name = NONE) =>
        LET src == outer.source.name IN
        /\ HasTable(tables, src)
        /\ \A n \in TableNames \ {src} : tables[n] = before[n]
        /\ \A i \in DOMAIN log :
             log[i].table = src /\ log[i].op \notin CreateOps \cup {"delete_table", "rename_table"}
        /\ (input_table_name # NONE => input_table_name = src /\ ~is_temporary)
        /\ (pc = "done" => result.kind = "returned")
        /\ ((pc = "done" /\ ~outer.dry_run) => result.data = tables[src])

C7_Witness ==
    /\ pc = "done"
    /\ ~outer.cached
    /\ outer.source.kind = "table"
    /\ outer.table_name = NONE
    /\ geocoded # {}
    /\ result.data = tables[outer.source.name]

\* C8: the status mapping the caller passed is the one handed to the geocoding
\* query, cached or not.
C8_CallerStatusHandedToQuery ==
    (InCall /\ HasOp("geocode_query")) => gq_status = outer.status

\* the lock was requested and refused
LockRefused == InCall /\ HasOp("lock") /\ ~locked /\ ~HasOp("unlock")

\* C9: when the lock is refused _geocode reports error 'The table is already
\* being geocoded' and aborted = True, runs no ALTER TABLE, no geocoding query
\* and no posterior summary, and leaves the table as the prior summary found it.
C9_LockRefusedAborts ==
    LockRefused =>
        /\ output.error = ERR_LOCKED
        /\ output.aborted = TRUE
        /\ ~output.post
        /\ ~HasOp("alter_table")
        /\ ~HasOp("geocode_query")
        /\ ~HasOp("posterior_summary")
        /\ geocoded = {}
        /\ (pc # "done" => tables[input_table_name] = priorTable)
        /\ ((pc = "done" /\ ~is_temporary) => tables[input_table_name] = priorTable)

C9_Witness ==
    /\ LockRefused
    /\ pc = "done"
    /\ result.metadata.error = ERR_LOCKED
    /\ result.metadata.aborted = TRUE

\* ------------------------------------- properties of one _geocode run
\* the geocoding query of the running _geocode raised
QueryRaised == err # NONE

\* C15: when the geocoding query raises, _geocode does not propagate the
\* exception: the metadata's error is the exception message, remaining_quota
\* and estimated_cost are set iff the message has the form 'Remaining quota: N.
\* Estimated cost: M', no posterior summary runs, the lock is released and the
\* columns added by the ALTER TABLE stay.
C15_QueryErrorReported ==
    QueryRaised =>
        /\ output.error = err
        /\ IF err = ERR_QUOTA
           THEN output.remaining_quota = {5} /\ output.estimated_cost = {7}
           ELSE output.remaining_quota = {} /\ output.estimated_cost = {}
        /\ ~output.post
        /\ ~HasOp("posterior_summary")
        /\ pc \in {"finish", "done"} => ~locked /\ HasOp("unlock")
        /\ pc = "done" => result.kind = "returned" /\ result.metadata = output
        /\ (pc # "done" \/ ~is_temporary) =>
              (gq_status \cup {HASH_COLUMN}) \subseteq tables[input_table_name].cols

C15_Witness ==
    /\ pc = "done"
    /\ err = ERR_QUOTA
    /\ result.kind = "returned"
    /\ result.metadata.remaining_quota = {5}
    /\ HasOp("alter_table")

\* positions of operation op in the log of the running call
Positions(op) == {i \in DOMAIN log : log[i].op = op}
\* every position of P comes before every position of Q
AllBefore(P, Q) == \A i \in P : \A j \in Q : i < j

\* C16: in one _geocode run the prior summary queries come before the lock is
\* requested; the ALTER TABLE and then the geocoding query run only while the
\* lock is held; the posterior summary runs only after the lock was released
\* and only if the run was not aborted; with required_quota = 0 there is no
\* lock, ALTER TABLE, geocoding query or posterior summary.
C16_GeocodeOrder ==
    LET exists_column == Positions("exists_column_query")
        prior == Positions("prior_summary")
        lock == Positions("lock")
        alter == Positions("alter_table")
        query == Positions("geocode_query")
        unlock == Positions("unlock")
        posterior == Positions("posterior_summary")
    IN
    /\ Cardinality(prior) <= 1
    /\ lock # {} =>
         /\ exists_column # {} /\ prior # {}
         /\ AllBefore(exists_column, lock) /\ AllBefore(prior, lock)
         /\ output.required_quota > 0
    /\ alter # {} =>
         /\ lock # {} /\ AllBefore(lock, alter)
         /\ AllBefore(alter, unlock)
    /\ pc = "geocode_query" => locked /\ log[Len(log)].op = "alter_table"
    /\ query # {} =>
         /\ alter # {} /\ AllBefore(alter, query)
         /\ AllBefore(query, unlock)
    /\ (pc = "unlock" /\ query # {}) =>
         locked /\ log[Len(log)].op = "geocode_query"
    /\ posterior # {} =>
         /\ unlock # {} /\ AllBefore(unlock, posterior)
         /\ query # {}
         /\ ~locked
         /\ ~aborted
    /\ (prior # {} /\ output.required_quota = 0) =>
         lock = {} /\ alter = {} /\ query = {} /\ posterior = {}

C16_Witness ==
    /\ pc = "done"
    /\ HasOp("posterior_summary")
    /\ HasOp("geocode_query")
    /\ output.required_quota > 0

\* the running call is a cached geocode of a dataframe without hash column
\* against a valid cache table
MergePath == CachedOnValidCache /\ HASH_COLUMN \notin outer.source.df.cols
\* the operations _cached_geocode makes before it geocodes the cache table
MergeOps(tmp, cache) ==
    <<Event("to_carto", tmp), Event("alter_tmp", tmp), Event("merge_update", tmp),
      Event("delete_table", cache), Event("rename_table", cache)>>
\* the operations of geocode on a table geocoded in place
InPlaceOps ==
    {"exists_column_query", "prior_summary", "lock", "alter_table", "geocode_query",
     "unlock", "posterior_summary", "read_carto"}

\* C17: with a valid cache table and a dataframe without hash column,
\* _cached_geocode uploads the dataframe to a fresh temporary table, adds the
\* hash column to it, runs the merge UPDATE, deletes the cache table, renames
\* the temporary table to the cache table name and only then geocodes the
\* cache table in place.
C17_CachedMergeOrder ==
    MergePath =>
        /\ \A i \in DOMAIN log :
             IF i <= 5
             THEN /\ tmp_table_name # NONE
                  /\ ~HasTable(before, tmp_table_name)
                  /\ log[i] = MergeOps(tmp_table_name, outer.table_name)[i]
             ELSE log[i].op \in InPlaceOps /\ log[i].table = outer.table_name
        /\ pc \in {"table_for_geocoding", "prior_summary", "check_quota", "alter",
                   "geocode_query", "unlock", "posterior", "finish"} => Len(log) >= 5
        /\ pc = "done" =>
             /\ result.kind = "returned"
             /\ Len(log) > 5
             /\ input_table_name = outer.table_name
             /\ ~is_temporary

C17_Witness ==
    /\ MergePath
    /\ pc = "done"
    /\ HasOp("geocode_query")
    /\ HasOp("posterior_summary")
    /\ log[4] = Event("delete_table", outer.table_name)

\* the running call is a cached geocode whose table_name names a table that
\* has no hash column
OnInvalidCache ==
    /\ InCall
    /\ outer.cached
    /\ outer.table_name # NONE
    /\ HasTable(before, outer.table_name)
    /\ HASH_COLUMN \notin before[outer.table_name].cols

\* C18: when the table named table_name exists without carto_geocode_hash
\* column, cached geocoding raises 'Cache table ... exists but is not a valid
\* geocode table' and uploads, alters, deletes and renames nothing, whatever
\* the source, a dataframe carrying a hash column included.
C18_InvalidCacheRaises ==
    OnInvalidCache =>
        /\ tables = before
        /\ log = <<>>
        /\ pc \in {"geocode", "cached_geocode", "done"}
        /\ pc = "done" => result.kind = "raised" /\ result.error = ERR_INVALID_CACHE

C18_Witness ==
    /\ OnInvalidCache
    /\ pc = "done"
    /\ result.error = ERR_INVALID_CACHE
    /\ outer.source.kind = "dataframe"
    /\ HASH_COLUMN \in outer.source.df.cols

\* the running call is a cached geocode, with table_name, of a CARTO table
CachedOnTable ==
    /\ InCall
    /\ outer.cached
    /\ outer.table_name # NONE
    /\ outer.source.kind = "table"

\* C19: a cached geocode of a CARTO table raises 'cached geocoding cannot be
\* used with tables' whether or not the cache table exists, before any table
\* is uploaded or modified.
C19_CachedTableRaises ==
    CachedOnTable =>
        /\ tables = before
        /\ log = <<>>
        /\ pc = "done" => result.kind = "raised" /\ result.error = ERR_CACHED_TABLE

\* ------------------------------------------------------ catalog repository
MISSING == "MISSING"                     \* a key the row does not hold
VariableIds == {"var1", "var2"}
\* rows the catalog client can return: an id and, or not, a name
CatalogRows == {[id |-> i, name |-> n] : i \in VariableIds, n \in {"name", MISSING}}
Responses == SeqsUpTo(CatalogRows, MaxResp)
ERR_DISCOVERY == "DiscoveryException"

NoValue == [type |-> "None", items |-> <<>>]
Raised(op, arg, e) == [op |-> op, arg |-> arg, kind |-> "raised", value |-> NoValue, error |-> e]
Returned(op, arg, v) == [op |-> op, arg |-> arg, kind |-> "returned", value |-> v, error |-> NONE]

\* VariableRepository._from_repo
FromRepo(row) == row

\* VariableRepository._to_variable
ToVariable(data) == [type |-> "Variable", items |-> <<data>>]

\* get_by_id with the rows taken from the wrong end of the client's answer
GetByIdLastRow(variable_id, rows) ==
    IF Len(rows) = 0
    THEN Raised("get_by_id", variable_id, ERR_DISCOVERY)
    ELSE Returned("get_by_id", variable_id, ToVariable(FromRepo(rows[Len(rows)])))

\* VariableRepository.get_by_id, after the client answered `rows`
GetByIdOutcome(variable_id, rows) ==
    IF Len(rows) = 0
    THEN Raised("get_by_id", variable_id, ERR_DISCOVERY)
    ELSE Returned("get_by_id", variable_id, ToVariable(FromRepo(rows[1])))

\* _to_variables answering an empty list entity where the code answers None
ToVariablesEmptyList(results) ==
    [type |-> "Variables", items |-> [i \in 1..Len(results) |-> FromRepo(results[i])]]

\* VariableRepository._to_variables
ToVariables(results) ==
    IF Len(results) = 0
    THEN NoValue
    ELSE [type |-> "Variables", items |-> [i \in 1..Len(results) |-> FromRepo(results[i])]]

DatasetIds == {"dataset1", "dataset2"}
VariableGroupIds == {"vargroup1", "vargroup2"}
ListOps == {"get_all", "get_by_dataset", "get_by_variable_group"}

InitRepo ==
    /\ InitGeo
    /\ InitOtherIdle
    /\ response \in Responses
    /\ clientCalls = <<>>
    /\ repoResult = NoRepoResult
    /\ repoCalls = 0

\* the catalog changes: the client will answer with other rows
SetResponse ==
    /\ \E r \in Responses : response' = r
    /\ response' # response
    /\ clientCalls' = <<>>
    /\ repoResult' = NoRepoResult
    /\ UNCHANGED <<repoCalls, geoVars, otherVars>>

\* VariableRepository.get_by_id(variable_id)
GetById ==
    /\ repoCalls < MaxRepoCalls
    /\ \E variable_id \in VariableIds :
         /\ clientCalls' = <<[filter_id |-> "id", filter_value |-> variable_id]>>
         /\ repoResult' = GetByIdOutcome(variable_id, response)
    /\ repoCalls' = repoCalls + 1
    /\ UNCHANGED <<response, geoVars, otherVars>>

\* VariableRepository.get_all()
GetAll ==
    /\ repoCalls < MaxRepoCalls
    /\ clientCalls' = <<[filter_id |-> NONE, filter_value |-> NONE]>>
    /\ repoResult' = Returned("get_all", NONE, ToVariables(response))
    /\ repoCalls' = repoCalls + 1
    /\ UNCHANGED <<response, geoVars, otherVars>>

\* VariableRepository.get_by_dataset(dataset_id)
GetByDataset ==
    /\ repoCalls < MaxRepoCalls
    /\ \E dataset_id \in DatasetIds :
         /\ clientCalls' = <<[filter_id |-> "dataset_id", filter_value |-> dataset_id]>>
         /\ repoResult' = Returned("get_by_dataset", dataset_id, ToVariables(response))
    /\ repoCalls' = repoCalls + 1
    /\ UNCHANGED <<response, geoVars, otherVars>>

\* VariableRepository.get_by_variable_group(variable_group_id)
GetByVariableGroup ==
    /\ repoCalls < MaxRepoCalls
    /\ \E variable_group_id \in VariableGroupIds :
         /\ clientCalls' = <<[filter_id |-> "variable_group_id", filter_value |-> variable_group_id]>>
         /\ repoResult' = Returned("get_by_variable_group", variable_group_id,
                                   ToVariables(response))
    /\ repoCalls' = repoCalls + 1
    /\ UNCHANGED <<response, geoVars, otherVars>>

NextRepo ==
    \/ SetResponse
    \/ GetById
    \/ GetAll
    \/ GetByDataset
    \/ GetByVariableGroup

SpecRepo == InitRepo /\ [][NextRepo]_vars

\* C10: get_by_id(id) queries the client exactly once, with filter ('id', id);
\* with no rows it raises DiscoveryException, otherwise it returns the single
\* entity built from the first returned row.
C10_GetById ==
    repoResult.op = "get_by_id" =>
        /\ clientCalls = <<[filter_id |-> "id", filter_value |-> repoResult.arg]>>
        /\ IF response = <<>>
           THEN repoResult.kind = "raised" /\ repoResult.error = ERR_DISCOVERY
           ELSE /\ repoResult.kind = "returned"
                /\ repoResult.value.type = "Variable"
                /\ repoResult.value.items = <<response[1]>>

C10_Witness ==
    /\ repoResult.op = "get_by_id"
    /\ repoResult.kind = "returned"
    /\ Len(response) = 2
    /\ response[1] # response[2]

\* the filter a list operation hands to the client
ListFilter(op, arg) ==
    CASE op = "get_all" -> [filter_id |-> NONE, filter_value |-> NONE]
      [] op = "get_by_dataset" -> [filter_id |-> "dataset_id", filter_value |-> arg]
      [] op = "get_by_variable_group" -> [filter_id |-> "variable_group_id", filter_value |-> arg]

\* C11: get_all, get_by_dataset and get_by_variable_group make exactly one
\* client call; they return None, not an empty list, when the client returns no
\* rows, and otherwise a list entity with one element per row in client order.
C11_ListOperations ==
    repoResult.op \in ListOps =>
        /\ clientCalls = <<ListFilter(repoResult.op, repoResult.arg)>>
        /\ repoResult.kind = "returned"
        /\ IF response = <<>>
           THEN repoResult.value = NoValue
           ELSE /\ repoResult.value.type = "Variables"
                /\ Len(repoResult.value.items) = Len(response)
                /\ \A i \in 1..Len(response) :
                     repoResult.value.items[i] = FromRepo(response[i])

C11_Witness ==
    /\ repoResult.op = "get_by_dataset"
    /\ Len(response) = 2
    /\ response[1].id # response[2].id
    /\ Len(repoResult.value.items) = 2

\* C12: every entity a repository operation returns holds every expected
\* field, a field missing from the client's row being mapped as None.
C12_MissingFieldsMappedAsNone ==
    repoResult.kind = "returned" =>
        \A i \in 1..Len(repoResult.value.items) :
            /\ repoResult.value.items[i].name # MISSING
            /\ (repoResult.op \in ListOps /\ response[i].name = MISSING
                    => repoResult.value.items[i].name = NULL)

\* ------------------------------------------------- color_continuous_layer
\* Python values, tagged so that `and`, `or` and `not` can be computed as
\* Python computes them
PyNone == [tag |-> "None"]
PyBool(b) == [tag |-> "bool", b |-> b]
PyStr(s) == [tag |-> "str", s |-> s]
Truthy(v) ==
    CASE v.tag = "None" -> FALSE
      [] v.tag = "bool" -> v.b
      [] v.tag = "str" -> v.s # ""
      [] OTHER -> TRUE
PyAnd(a, b) == IF Truthy(a) THEN b ELSE a
PyOr(a, b) == IF Truthy(a) THEN a ELSE b
PyNot(a) == PyBool(~Truthy(a))

\* the arguments a caller can pass
LayerValues == {"pop", "temp"}
LayerArgChoices ==
    [source : {"table"},
     value : LayerValues,
     title : {PyStr(""), PyStr("Title")},
     palette : {PyNone, PyStr("sunset")},
     description : {PyStr("")},
     footer : {PyStr("")},
     legend : {PyBool(TRUE), PyBool(FALSE)},
     popup : {PyBool(TRUE), PyBool(FALSE)},
     widget : {PyBool(TRUE), PyBool(FALSE)},
     animate : {PyNone, PyStr(""), PyStr("date")}]

\* 'animation(linear(${}), 20, fade(1,1))'.format(animate) if animate else '1'
AnimationFilter(animate) ==
    IF Truthy(animate)
    THEN <<"animation(linear($", animate.s, "), 20, fade(1,1))">>
    ELSE <<"1">>

RampColor(value, palette) ==
    <<"ramp(linear($", value, "), ", PyOr(palette, PyStr("bluyl")).s, ")">>

LayerStyle(a) ==
    [point |-> [color |-> RampColor(a.value, a.palette),
                filter |-> AnimationFilter(a.animate)],
     line |-> [color |-> RampColor(a.value, a.palette),
               filter |-> AnimationFilter(a.animate)],
     polygon |-> [color |-> <<"opacity(">> \o RampColor(a.value, a.palette) \o <<", 0.9)">>,
                  filter |-> AnimationFilter(a.animate)]]

HoverPopup(a) ==
    [tag |-> "dict",
     hover |-> [title |-> PyOr(a.title, PyStr(a.value)), value |-> <<"$", a.value>>]]

\* popup=popup and not animate and {'hover': ...}
LayerPopup(a) == PyAnd(a.popup, PyAnd(PyNot(a.animate), HoverPopup(a)))

\* legend=legend and {...}
LayerLegend(a) ==
    PyAnd(a.legend,
          [tag |-> "dict",
           type |-> [point |-> "color-continuous-point",
                     line |-> "color-continuous-line",
                     polygon |-> "color-continuous-polygon"],
           title |-> PyOr(a.title, PyStr(a.value)),
           description |-> a.description,
           footer |-> a.footer])

\* widgets=[animate and {time-series}, widget and {histogram}]
LayerWidgets(a) ==
    << PyAnd(a.animate,
             [tag |-> "dict", type |-> "time-series", value |-> a.animate.s,
              title |-> "Animation"]),
       PyAnd(a.widget,
             [tag |-> "dict", type |-> "histogram", value |-> a.value,
              title |-> "Distribution"]) >>

\* color_continuous_layer(source, value, ...): the arguments handed to Layer
ColorContinuousLayer ==
    /\ \E a \in LayerArgChoices :
         /\ layerArgs' = a
         /\ layer' = [source |-> a.source,
                      style |-> LayerStyle(a),
                      popup |-> LayerPopup(a),
                      legend |-> LayerLegend(a),
                      widgets |-> LayerWidgets(a)]
    /\ UNCHANGED <<geoVars, repoVars, popupVars, gbqVars>>

InitLayer == InitGeo /\ InitRepoIdle /\ InitOtherIdle
NextLayer == ColorContinuousLayer
SpecLayer == InitLayer /\ [][NextLayer]_vars

LayerBuilt == layer # NoLayer
HasLegend == layer.legend.tag = "dict"
HasHoverPopup ==
    /\ layer.popup.tag = "dict"
    /\ layer.popup.hover.value = <<"$", layerArgs.value>>
HasHistogramWidget ==
    \E i \in 1..Len(layer.widgets) :
        /\ layer.widgets[i].tag = "dict"
        /\ layer.widgets[i].type = "histogram"
        /\ layer.widgets[i].value = layerArgs.value

\* C13: with legend, popup and widget all True the Layer has a legend, a hover
\* popup and a histogram widget on `value`, whatever the other arguments are,
\* a non-empty animate included.
C13_LegendPopupWidgetIncluded ==
    (/\ LayerBuilt
     /\ Truthy(layerArgs.legend)
     /\ Truthy(layerArgs.popup)
     /\ Truthy(layerArgs.widget))
        => HasLegend /\ HasHoverPopup /\ HasHistogramWidget

\* ------------------------------------------------------------------ Popup
ERR_WRONG_POPUP == "ValueError: Wrong popup input"
PyInt(n) == [tag |-> "int", n |-> n]
\* a dictionary item of 'click' / 'hover'; MISSING marks a key it does not hold
ItemDict(value, label) == [tag |-> "item", value |-> value, label |-> label]

\* truth value of an item (`if item:`)
ItemTruthy(item) ==
    CASE item.tag = "item" -> item.value # MISSING \/ item.label # MISSING
      [] item.tag = "int" -> item.n # 0
      [] OTHER -> Truthy(item)

PopupItems ==
    {PyStr("pop_max"), PyStr(""), PyNone, PyInt(5),
     ItemDict("pop_max", "Pop max"), ItemDict(MISSING, "Pop max"),
     ItemDict(MISSING, MISSING)}
ItemLists == SeqsUpTo(PopupItems, MaxItems)

DictData(has_click, c, has_hover, h) ==
    [tag |-> "dict", has_click |-> has_click, click |-> c,
     has_hover |-> has_hover, hover |-> h]
\* the data a caller can pass: None, a value that is no dictionary, or a
\* dictionary whose 'click' and 'hover', where present, are among `lists`
PopupInputs(lists) ==
    {PyNone, PyInt(5), PyStr("click"), [tag |-> "list"]}
    \cup {DictData(FALSE, <<>>, FALSE, <<>>)}
    \cup {DictData(TRUE, c, FALSE, <<>>) : c \in lists}
    \cup {DictData(FALSE, <<>>, TRUE, h) : h \in lists}
    \cup {DictData(TRUE, c, TRUE, h) : c \in lists, h \in lists}

\* utils.gen_variable_name
GenVariableName(value) == <<"v", value>>

\* an item taken whatever dictionary it is
AcceptedItemAnyDict(item) == item.tag \in {"str", "item"}

\* isinstance(item, str), or isinstance(item, dict) and 'value' in item
AcceptedItem(item) ==
    \/ item.tag = "str"
    \/ item.tag = "item" /\ item.value # MISSING

PopupRaised(op) == [op |-> op, kind |-> "raised", error |-> ERR_WRONG_POPUP, value |-> <<>>]
PopupReturned(op, v) == [op |-> op, kind |-> "returned", error |-> NONE, value |-> v]

\* Popup._get_attrs: the loop from item i on, `out` being the output so far
RECURSIVE GetAttrsFrom(_, _, _)
GetAttrsFrom(array, i, out) ==
    IF i > Len(array) THEN [kind |-> "returned", value |-> out]
    ELSE LET item == array[i] IN
         IF ~ItemTruthy(item) THEN GetAttrsFrom(array, i + 1, out)
         ELSE IF ~AcceptedItem(item) THEN [kind |-> "raised", value |-> <<>>]
         ELSE IF item.tag = "str"
              THEN GetAttrsFrom(array, i + 1,
                       Append(out, [name |-> GenVariableName(item.s), label |-> item.s]))
              ELSE GetAttrsFrom(array, i + 1,
                       Append(out, [name |-> GenVariableName(item.value),
                                    label |-> IF item.label = MISSING THEN NONE
                                              ELSE item.label]))
GetAttrs(array) == GetAttrsFrom(array, 1, <<>>)

\* Popup._get_vars: the loop from item i on, `out` being the dictionary so far
RECURSIVE GetVarsFrom(_, _, _)
GetVarsFrom(array, i, out) ==
    IF i > Len(array) THEN [kind |-> "returned", value |-> out]
    ELSE LET item == array[i] IN
         IF ~ItemTruthy(item) THEN GetVarsFrom(array, i + 1, out)
         ELSE IF ~AcceptedItem(item) THEN [kind |-> "raised", value |-> out]
         ELSE LET v == IF item.tag = "str" THEN item.s ELSE item.value IN
              GetVarsFrom(array, i + 1,
                  {e \in out : e.name # GenVariableName(v)}
                  \cup {[name |-> GenVariableName(v), value |-> v]})

\* Popup.__init__(data)
PopupInit ==
    /\ popupState = "none"
    /\ \E data \in PopupInputs(ItemLists) :
         /\ popupData' = data
         /\ IF data.tag = "None"
            THEN /\ click' = <<>> /\ hover' = <<>>
                 /\ popupState' = "built"
                 /\ popupResult' = PopupReturned("init", <<>>)
            ELSE IF data.tag = "dict"
            THEN /\ click' = (IF data.has_click THEN data.click ELSE <<>>)
                 /\ hover' = (IF data.has_hover THEN data.hover ELSE <<>>)
                 /\ popupState' = "built"
                 /\ popupResult' = PopupReturned("init", <<>>)
            ELSE /\ click' = <<>> /\ hover' = <<>>
                 /\ popupState' = "failed"
                 /\ popupResult' = PopupRaised("init")
    /\ UNCHANGED <<geoVars, repoVars, layerVars, gbqVars>>

\* Popup.get_interactivity()
GetInteractivity ==
    /\ popupState = "built"
    /\ LET c == GetAttrs(click)
           h == GetAttrs(hover)
           withClick == IF Len(click) > 0
                        THEN <<[event |-> "click", attrs |-> c.value]>> ELSE <<>>
           withHover == IF Len(hover) > 0
                        THEN <<[event |-> "hover", attrs |-> h.value]>> ELSE <<>>
       IN popupResult' =
            IF Len(click) > 0 /\ c.kind = "raised" THEN PopupRaised("get_interactivity")
            ELSE IF Len(hover) > 0 /\ h.kind = "raised" THEN PopupRaised("get_interactivity")
            ELSE PopupReturned("get_interactivity", withClick \o withHover)
    /\ UNCHANGED <<popupData, popupState, click, hover, geoVars, repoVars, layerVars, gbqVars>>

\* Popup.get_variables()
GetVariables ==
    /\ popupState = "built"
    /\ LET c == GetVarsFrom(click, 1, {})
           h == GetVarsFrom(hover, 1, c.value)
       IN popupResult' =
            IF c.kind = "raised" \/ h.kind = "raised" THEN PopupRaised("get_variables")
            ELSE PopupReturned("get_variables", <<h.value>>)
    /\ UNCHANGED <<popupData, popupState, click, hover, geoVars, repoVars, layerVars, gbqVars>>

InitPopup == InitGeo /\ InitRepoIdle /\ InitOtherIdle
NextPopup ==
    \/ PopupInit
    \/ GetInteractivity
    \/ GetVariables
SpecPopup == InitPopup /\ [][NextPopup]_vars

\* a non-empty item that is neither a string nor a dictionary with 'value'
WrongItem(item) ==
    /\ ItemTruthy(item)
    /\ ~(item.tag = "str" \/ (item.tag = "item" /\ item.value # MISSING))
HasWrongItem(array) == \E i \in 1..Len(array) : WrongItem(array[i])
NonEmptyItems(array) == Len(SelectSeq(array, ItemTruthy))

\* C14: Popup(data) raises ValueError('Wrong popup input') at construction iff
\* data is neither None nor a dict; a wrong non-empty item is accepted at
\* construction and raises ValueError only in get_interactivity and
\* get_variables; empty items are skipped without error.
C14_PopupValidation ==
    /\ popupState # "none" =>
         (popupState = "failed" <=> popupData.tag \notin {"None", "dict"})
    /\ popupState = "failed" => popupResult = PopupRaised("init")
    /\ popupResult.op \in {"get_interactivity", "get_variables"} =>
         /\ popupResult.kind = "raised" <=> (HasWrongItem(click) \/ HasWrongItem(hover))
         /\ popupResult.kind = "raised" => popupResult.error = ERR_WRONG_POPUP
    /\ (popupResult.op = "get_interactivity" /\ popupResult.kind = "returned") =>
         \A i \in 1..Len(popupResult.value) :
             Len(popupResult.value[i].attrs) =
                 NonEmptyItems(IF popupResult.value[i].event = "click"
                               THEN click ELSE hover)
    /\ (popupResult.op = "get_variables" /\ popupResult.kind = "returned") =>
         popupResult.value[1] =
             {[name |-> GenVariableName(v), value |-> v] : v \in
                 {click[i].s : i \in {j \in 1..Len(click) : click[j].tag = "str" /\ click[j].s # ""}}
                 \cup {click[i].value : i \in {j \in 1..Len(click) : click[j].tag = "item" /\ click[j].value # MISSING}}
                 \cup {hover[i].s : i \in {j \in 1..Len(hover) : hover[j].tag = "str" /\ hover[j].s # ""}}
                 \cup {hover[i].value : i \in {j \in 1..Len(hover) : hover[j].tag = "item" /\ hover[j].value # MISSING}}}

\* a popup built with a wrong item after an empty one raised in get_interactivity
C14_Witness ==
    /\ popupState = "built"
    /\ popupResult = PopupRaised("get_interactivity")
    /\ Len(hover) = 2
    /\ ~ItemTruthy(hover[1])
    /\ WrongItem(hover[2])

\* ------------------------------------------------- GBQManager zoom inserts
MIN_MEDIUM_LEVEL_ZOOM == 9
MAX_MEDIUM_LEVEL_ZOOM == 11
DEFAULT_ZOOMS == <<0, 4, 8, 12, 14>>

\* the zooms a caller can ask for: None, or a list, which may repeat a zoom
ZoomValues == {0, 8, 9, 10, 11, 12, 14}
ZoomInputs ==
    {NoZooms} \cup {[given |-> TRUE, list |-> l] : l \in SeqsUpTo(ZoomValues, MaxZooms)}

\* zooms_ = zooms if zooms else DEFAULT_ZOOMS
ZoomsOrDefault(z) == IF z.given /\ z.list # <<>> THEN z.list ELSE DEFAULT_ZOOMS

IsLowLevel(zoom) == zoom < MIN_MEDIUM_LEVEL_ZOOM
IsLowLevelInclusive(zoom) == zoom <= MIN_MEDIUM_LEVEL_ZOOM
IsMediumLevel(zoom) == zoom >= MIN_MEDIUM_LEVEL_ZOOM /\ zoom <= MAX_MEDIUM_LEVEL_ZOOM
IsHighLevel(zoom) == zoom > MAX_MEDIUM_LEVEL_ZOOM

\* the low level zooms with the first medium level zoom taken in
LowLevelZoomsInclusive(zooms_) == SelectSeq(zooms_, IsLowLevelInclusive)

\* [zoom for zoom in zooms_ if zoom < MIN_MEDIUM_LEVEL_ZOOM]
LowLevelZooms(zooms_) == SelectSeq(zooms_, IsLowLevel)
\* [zoom for zoom in zooms_ if MIN_MEDIUM_LEVEL_ZOOM <= zoom <= MAX_MEDIUM_LEVEL_ZOOM]
MediumLevelZooms(zooms_) == SelectSeq(zooms_, IsMediumLevel)
\* [zoom for zoom in zooms_ if zoom > MAX_MEDIUM_LEVEL_ZOOM]
HighLevelZooms(zooms_) == SelectSeq(zooms_, IsHighLevel)

Query(level, zs, depth) == [level |-> level, zooms |-> zs, depth |-> depth]

\* _insert_medium_level_zoom_data, once per zoom of the list
MediumQueries(zs) == [i \in 1..Len(zs) |-> Query("medium", <<zs[i]>>, 0)]
\* _insert_high_level_zoom_data, once per zoom of the list
HighQueries(zs) ==
    [i \in 1..Len(zs) |->
        Query("high", <<MAX_MEDIUM_LEVEL_ZOOM>>, zs[i] - MAX_MEDIUM_LEVEL_ZOOM)]

\* a tileset generation starts with its zooms argument
NewTileset ==
    /\ \E z \in ZoomInputs : zooms' = z
    /\ zooms' # zooms \/ ran # {}
    /\ ran' = {}
    /\ queries' = <<>>
    /\ UNCHANGED <<geoVars, repoVars, layerVars, popupVars>>

\* GBQManager.insert_low_level_zoom_data
InsertLowLevelZoomData ==
    /\ "low" \notin ran
    /\ LET low_level_zooms == LowLevelZooms(ZoomsOrDefault(zooms)) IN
       queries' = IF low_level_zooms = <<>> THEN queries
                  ELSE Append(queries, Query("low", low_level_zooms, 0))
    /\ ran' = ran \cup {"low"}
    /\ UNCHANGED <<zooms, geoVars, repoVars, layerVars, popupVars>>

\* GBQManager.insert_medium_level_zoom_data
InsertMediumLevelZoomData ==
    /\ "medium" \notin ran
    /\ queries' = queries \o MediumQueries(MediumLevelZooms(ZoomsOrDefault(zooms)))
    /\ ran' = ran \cup {"medium"}
    /\ UNCHANGED <<zooms, geoVars, repoVars, layerVars, popupVars>>

\* GBQManager.insert_high_level_zoom_data
InsertHighLevelZoomData ==
    /\ "high" \notin ran
    /\ queries' = queries \o HighQueries(HighLevelZooms(ZoomsOrDefault(zooms)))
    /\ ran' = ran \cup {"high"}
    /\ UNCHANGED <<zooms, geoVars, repoVars, layerVars, popupVars>>

InitGbq ==
    /\ InitGeo /\ InitRepoIdle /\ InitLayerIdle /\ InitPopupIdle
    /\ zooms \in ZoomInputs
    /\ ran = {}
    /\ queries = <<>>
NextGbq ==
    \/ NewTileset
    \/ InsertLowLevelZoomData
    \/ InsertMediumLevelZoomData
    \/ InsertHighLevelZoomData
SpecGbq == InitGbq /\ [][NextGbq]_vars

\* the zooms asked for: the list, or 0, 4, 8, 12, 14 when it is empty or None
Requested == IF zooms.given /\ zooms.list # <<>> THEN zooms.list ELSE <<0, 4, 8, 12, 14>>
\* how many times zoom z is asked for
TimesRequested(z) == Cardinality({i \in DOMAIN Requested : Requested[i] = z})
QueriesOf(level) == {i \in DOMAIN queries : queries[i].level = level}
\* how many times the queries run so far handle zoom z
TimesHandled(z) ==
    Cardinality(UNION {{<<i, j>> : j \in {k \in DOMAIN queries[i].zooms :
                                                queries[i].zooms[k] = z}} :
                       i \in QueriesOf("low") \cup QueriesOf("medium")})
    + Cardinality({i \in QueriesOf("high") : 11 + queries[i].depth = z})
AllZooms == ZoomValues \cup {4}

\* C20: once the low, medium and high level inserts have run, every zoom asked
\* for is handled exactly once: the zooms < 9 together in one low level query,
\* each zoom in 9..11 in a medium level query of its own, each zoom > 11 in a
\* high level query of its own from base zoom 11 with depth = zoom - 11 >= 1;
\* a level without zooms runs no query.
C20_ZoomPartition ==
    /\ "low" \in ran =>
         /\ Cardinality(QueriesOf("low")) =
                (IF \E i \in DOMAIN Requested : Requested[i] < 9 THEN 1 ELSE 0)
         /\ \A i \in QueriesOf("low") :
              \A j \in DOMAIN queries[i].zooms : queries[i].zooms[j] < 9
    /\ "low" \notin ran => QueriesOf("low") = {}
    /\ "medium" \notin ran => QueriesOf("medium") = {}
    /\ "high" \notin ran => QueriesOf("high") = {}
    /\ \A i \in QueriesOf("medium") :
         Len(queries[i].zooms) = 1 /\ queries[i].zooms[1] \in 9..11
    /\ \A i \in QueriesOf("high") :
         queries[i].zooms = <<11>> /\ queries[i].depth >= 1
    /\ \A z \in AllZooms :
         (\/ z < 9 /\ "low" \in ran
          \/ z \in 9..11 /\ "medium" \in ran
          \/ z > 11 /\ "high" \in ran) => TimesHandled(z) = TimesRequested(z)

C20_Witness ==
    /\ ran = {"low", "medium", "high"}
    /\ zooms.given
    /\ Len(zooms.list) = 2
    /\ zooms.list[1] = 9
    /\ zooms.list[2] > 11
    /\ Len(queries) = 2

====
